---- MODULE Spec2Model ----
(***************************************************************************)
(* TTLMap (package alert): a mutex-guarded map from string keys to items   *)
(* (value, lastAccess) with a background sweeper goroutine that, once per  *)
(* second, deletes the items whose lastAccess is more than maxTTL seconds  *)
(* older than the tick's time.                                             *)
(*                                                                         *)
(* Time is counted in sub-second units: one second is Sub units, so that   *)
(* the truncation of time.Time.Unix() to whole seconds is visible.         *)
(***************************************************************************)
EXTENDS Integers, Sequences, FiniteSets, TLC

\* ---- bounds of the model ------------------------------------------------
Sub == 2            \* clock units per second
MaxTime == 4        \* the clock stops advancing here
MaxTTL == 1         \* maxTTL is drawn from 0..MaxTTL at construction
MaxCalls == 3       \* the callers make at most this many calls in all
LiveCalls == 1      \* ... and at most this many in the runs checked for progress

MaxText == 3        \* the longest Text of a record passed to preprocess
MaxLimit == 2       \* the largest textLimit tried
MaxRecords == 2     \* the most records passed to preprocess

defaultTextLimit == 6000     \* the textLimit of a config that sets none

Procs == {"c1", "c2"}        \* the goroutines calling Put, Get and Len
Keys == {"x", "a"}
Values == {1, 5}
Sweeper == "sweeper"         \* the goroutine started by NewTTLMap
NoOne == "none"              \* the mutex is free
NoTick == -1                 \* the ticker's channel is empty

VARIABLES
    m,          \* TTLMap.m: a function from the present keys to items
    lock,       \* TTLMap.l: the goroutine holding the mutex, or NoOne
    maxTTL,     \* the maxTTL captured by the sweeper's closure
    clock,      \* the current time, in units of 1/Sub second
    nextTick,   \* the time at which the ticker fires next
    tickChan,   \* the ticker's channel (capacity 1): a tick time or NoTick
    spc,        \* the sweeper's position: "wait", "lock" or "scan"
    now,        \* the sweeper's loop variable: the time of the tick received
    todo,       \* the keys the sweeper's range loop has still to visit
    pc,         \* each caller's position
    arg,        \* each caller's current arguments [k, v]
    ret,        \* each caller's result (Get, Len) once computed
    ncalls,     \* the number of calls made so far (bounds the exploration)
    \* history variables: they record what happened, the code has none of them
    lastPut,    \* per key: the value of the most recent Put, 0 if none
    nPuts,      \* per key: Puts since the key's latest entry was created
                \*          (capped at 2), 0 if never put
    evicted,    \* per key: the sweeper removed it and no Put came since
    recreated,  \* per key: its entry was created by a Put after an eviction
    putTime,    \* per key ever put: the clock of its most recent Put
    touchTime,  \* per key ever put: the clock of its most recent Put or hit Get
    disjoint,   \* every Put and Get so far was on the caller's own key
    \* AlertMethod.preprocess (package slack)
    textLimit,  \* AlertMethod.textLimit
    records,    \* the records passed to preprocess
    output,     \* the records preprocess has appended to its output so far
    pidx        \* the number of input records its loop has handled

vars == <<m, lock, maxTTL, clock, nextTick, tickChan, spc, now, todo,
          pc, arg, ret, ncalls, lastPut, nPuts, evicted, recreated, putTime,
          touchTime, disjoint, textLimit, records, output, pidx>>

preVars == <<textLimit, records, output, pidx>>

histVars == <<lastPut, nPuts, evicted, recreated, putTime, touchTime,
              disjoint>>

NoArg == [k |-> "x", v |-> 0]

\* a partition of the keys among the callers, to tell the runs in which the
\* callers work on pairwise disjoint keys
Own(p) == IF p = "c1" THEN "x" ELSE "a"

\* the function f with k mapped to v
SetAt(f, k, v) == [x \in (DOMAIN f) \cup {k} |-> IF x = k THEN v ELSE f[x]]

\* ---- pure helpers -------------------------------------------------------

\* time.Time.Unix(): whole seconds of a time
Unix(t) == t \div Sub

\* mutants of the sweeper's test: ">=" for ">", and a TTL one second too long
ExpiredGe(tickTime, lastAccess, ttl) == Unix(tickTime) - lastAccess >= ttl
ExpiredLate(tickTime, lastAccess, ttl) == Unix(tickTime) - lastAccess > ttl + 1

\* the sweeper's test: now.Unix() - v.lastAccess > int64(maxTTL)
Expired(tickTime, lastAccess, ttl) == Unix(tickTime) - lastAccess > ttl

\* mutant of the deletion: the entry is left in the map
DeleteNone(mm, k) == mm

\* delete(m.m, k)
Delete(mm, k) == [x \in (DOMAIN mm) \ {k} |-> mm[x]]

\* len(m.m)
MapLen(mm) == Cardinality(DOMAIN mm)

\* mutant of Put: the map is rebuilt with the one entry
PutItemOnly(mm, k, v, t) ==
    [x \in {k} |->
        [value |-> IF k \in DOMAIN mm THEN mm[k].value ELSE v,
         lastAccess |-> Unix(t)]]

\* the body of Put between Lock and Unlock: the value is stored only when
\* the key is absent; lastAccess is set in both cases
PutItem(mm, k, v, t) ==
    [x \in (DOMAIN mm) \cup {k} |->
        IF x = k
        THEN [value |-> IF k \in DOMAIN mm THEN mm[k].value ELSE v,
              lastAccess |-> Unix(t)]
        ELSE mm[x]]

\* the value Get returns: it.value when present, the zero value otherwise
GetValue(mm, k) == IF k \in DOMAIN mm THEN mm[k].value ELSE 0

\* mutants of Get's refresh: every entry is refreshed; nothing is refreshed;
\* an absent key is created with the zero value
GetTouchAll(mm, k, t) ==
    [x \in DOMAIN mm |-> [mm[x] EXCEPT !.lastAccess = Unix(t)]]
GetTouchNone(mm, k, t) == mm
GetTouchCreate(mm, k, t) ==
    [x \in (DOMAIN mm) \cup {k} |->
        [value |-> IF x \in DOMAIN mm THEN mm[x].value ELSE 0,
         lastAccess |-> IF x = k THEN Unix(t) ELSE mm[x].lastAccess]]

\* the map after Get: lastAccess refreshed when present
GetTouch(mm, k, t) ==
    IF k \in DOMAIN mm
    THEN [mm EXCEPT ![k].lastAccess = Unix(t)]
    ELSE mm

\* mutant of the mutex: Lock() never waits
CanLockAlways(l) == TRUE

\* sync.Mutex.Lock() returns only when nobody holds the mutex
CanLock(l) == l = NoOne

\* mutant of the mutex: Unlock() is forgotten
UnlockNot(l) == l

\* sync.Mutex.Unlock(): the mutex is free again
Unlock(l) == NoOne

\* ---- initial state --------------------------------------------------------
\* NewTTLMap has returned less than a second ago: the map is empty, the
\* sweeper waits for the first tick, which is due within the next second at
\* any phase of the wall clock's seconds.
Init ==
    /\ m = <<>>
    /\ lock = NoOne
    /\ maxTTL \in 0..MaxTTL
    /\ clock = 0
    /\ nextTick \in 1..Sub
    /\ tickChan = NoTick
    /\ spc = "wait"
    /\ now = 0
    /\ todo = {}
    /\ pc = [p \in Procs |-> "idle"]
    /\ arg = [p \in Procs |-> NoArg]
    /\ ret = [p \in Procs |-> 0]
    /\ ncalls = 0
    /\ lastPut = [k \in Keys |-> 0]
    /\ nPuts = [k \in Keys |-> 0]
    /\ evicted = [k \in Keys |-> FALSE]
    /\ recreated = [k \in Keys |-> FALSE]
    /\ putTime = <<>>
    /\ touchTime = <<>>
    /\ disjoint = TRUE
    /\ textLimit = defaultTextLimit
    /\ records = <<>>
    /\ output = <<>>
    /\ pidx = 0

\* ---- time and the ticker ------------------------------------------------

\* Time passes by one unit.  When the ticker's period is over it sends the
\* current time on its channel, or drops the tick when the channel is full.
Advance ==
    /\ clock < MaxTime
    /\ clock' = clock + 1
    /\ IF clock' = nextTick
       THEN /\ nextTick' = nextTick + Sub
            /\ tickChan' = IF tickChan = NoTick THEN clock' ELSE tickChan
       ELSE UNCHANGED <<nextTick, tickChan>>
    /\ UNCHANGED <<m, lock, maxTTL, spc, now, todo, pc, arg, ret>>
    /\ UNCHANGED histVars
    /\ UNCHANGED ncalls
    /\ UNCHANGED preVars

\* ---- the sweeper --------------------------------------------------------

\* for now := range time.Tick(time.Second)
SweepRecv ==
    /\ spc = "wait"
    /\ tickChan # NoTick
    /\ now' = tickChan
    /\ tickChan' = NoTick
    /\ spc' = "lock"
    /\ UNCHANGED <<m, lock, maxTTL, clock, nextTick, todo, pc, arg, ret>>
    /\ UNCHANGED histVars
    /\ UNCHANGED ncalls
    /\ UNCHANGED preVars

\* m.l.Lock(), and the range loop starts
SweepLock ==
    /\ spc = "lock"
    /\ CanLock(lock)
    /\ lock' = Sweeper
    /\ todo' = DOMAIN m
    /\ spc' = "scan"
    /\ UNCHANGED <<m, maxTTL, clock, nextTick, tickChan, now, pc, arg, ret>>
    /\ UNCHANGED histVars
    /\ UNCHANGED ncalls
    /\ UNCHANGED preVars

\* one iteration of the range loop, in the map's arbitrary order
SweepStep(k) ==
    /\ spc = "scan"
    /\ k \in todo
    /\ todo' = todo \ {k}
    /\ IF Expired(now, m[k].lastAccess, maxTTL)
       THEN /\ m' = Delete(m, k)
            /\ evicted' = [evicted EXCEPT ![k] = TRUE]
            /\ recreated' = [recreated EXCEPT ![k] = FALSE]
       ELSE UNCHANGED <<m, evicted, recreated>>
    /\ UNCHANGED <<lock, maxTTL, clock, nextTick, tickChan, spc, now,
                   pc, arg, ret, lastPut, nPuts, putTime, touchTime, disjoint>>
    /\ UNCHANGED ncalls
    /\ UNCHANGED preVars

\* the range loop is over: m.l.Unlock(), back to waiting for a tick
SweepUnlock ==
    /\ spc = "scan"
    /\ todo = {}
    /\ lock' = Unlock(lock)
    /\ spc' = "wait"
    /\ now' = 0
    /\ UNCHANGED <<m, maxTTL, clock, nextTick, tickChan, todo,
                   pc, arg, ret>>
    /\ UNCHANGED histVars
    /\ UNCHANGED ncalls
    /\ UNCHANGED preVars

\* ---- Put ----------------------------------------------------------------

\* a caller calls Put(k, v): m.l.Lock()
PutLock(p, k, v) ==
    /\ pc[p] = "idle"
    /\ ncalls < MaxCalls
    /\ ncalls' = ncalls + 1
    /\ CanLock(lock)
    /\ lock' = p
    /\ pc' = [pc EXCEPT ![p] = "put"]
    /\ arg' = [arg EXCEPT ![p] = [k |-> k, v |-> v]]
    /\ disjoint' = (disjoint /\ k = Own(p))
    /\ UNCHANGED <<m, maxTTL, clock, nextTick, tickChan, spc, now, todo,
                   ret, lastPut, nPuts, evicted, recreated, putTime,
                   touchTime>>
    /\ UNCHANGED preVars

\* the body of Put, then m.l.Unlock() and return
PutBody(p) ==
    /\ pc[p] = "put"
    /\ m' = PutItem(m, arg[p].k, arg[p].v, clock)
    /\ lock' = Unlock(lock)
    /\ pc' = [pc EXCEPT ![p] = "idle"]
    /\ arg' = [arg EXCEPT ![p] = NoArg]
    /\ lastPut' = [lastPut EXCEPT ![arg[p].k] = arg[p].v]
    /\ nPuts' = [nPuts EXCEPT ![arg[p].k] =
                    IF arg[p].k \in DOMAIN m THEN 2 ELSE 1]
    /\ evicted' = [evicted EXCEPT ![arg[p].k] = FALSE]
    /\ recreated' = [recreated EXCEPT ![arg[p].k] =
                        IF arg[p].k \in DOMAIN m THEN @ ELSE evicted[arg[p].k]]
    /\ putTime' = SetAt(putTime, arg[p].k, clock)
    /\ touchTime' = SetAt(touchTime, arg[p].k, clock)
    /\ UNCHANGED <<maxTTL, clock, nextTick, tickChan, spc, now, todo,
                   ret, ncalls, disjoint>>
    /\ UNCHANGED preVars

\* ---- Get ----------------------------------------------------------------

\* a caller calls Get(k): m.l.Lock()
GetLock(p, k) ==
    /\ pc[p] = "idle"
    /\ ncalls < MaxCalls
    /\ ncalls' = ncalls + 1
    /\ CanLock(lock)
    /\ lock' = p
    /\ pc' = [pc EXCEPT ![p] = "get"]
    /\ arg' = [arg EXCEPT ![p] = [k |-> k, v |-> 0]]
    /\ disjoint' = (disjoint /\ k = Own(p))
    /\ UNCHANGED <<m, maxTTL, clock, nextTick, tickChan, spc, now, todo,
                   ret, lastPut, nPuts, evicted, recreated, putTime,
                   touchTime>>
    /\ UNCHANGED preVars

GetBody(p) ==
    /\ pc[p] = "get"
    /\ ret' = [ret EXCEPT ![p] = GetValue(m, arg[p].k)]
    /\ m' = GetTouch(m, arg[p].k, clock)
    /\ pc' = [pc EXCEPT ![p] = "get_done"]
    /\ touchTime' = IF arg[p].k \in DOMAIN m
                    THEN SetAt(touchTime, arg[p].k, clock)
                    ELSE touchTime
    /\ UNCHANGED <<lock, maxTTL, clock, nextTick, tickChan, spc, now, todo,
                   arg, lastPut, nPuts, evicted, recreated, putTime,
                   disjoint>>
    /\ UNCHANGED ncalls
    /\ UNCHANGED preVars

\* m.l.Unlock() and return v
GetUnlock(p) ==
    /\ pc[p] = "get_done"
    /\ lock' = Unlock(lock)
    /\ pc' = [pc EXCEPT ![p] = "idle"]
    /\ arg' = [arg EXCEPT ![p] = NoArg]
    /\ ret' = [ret EXCEPT ![p] = 0]
    /\ UNCHANGED <<m, maxTTL, clock, nextTick, tickChan, spc, now, todo>>
    /\ UNCHANGED histVars
    /\ UNCHANGED ncalls
    /\ UNCHANGED preVars

\* ---- Len ----------------------------------------------------------------

\* A write to the map that the holder of the mutex is about to make: Len
\* reads the entry count without the mutex, so such a write races with it.
PendingInsert ==
    \E q \in Procs : pc[q] = "put" /\ arg[q].k \notin DOMAIN m

PendingDelete ==
    /\ spc = "scan"
    /\ \E k \in todo : Expired(now, m[k].lastAccess, maxTTL)

\* what the unsynchronised read of the count can yield: the count before or
\* after the write it races with
LenOutcomes ==
    {MapLen(m)}
        \cup (IF PendingInsert THEN {MapLen(m) + 1} ELSE {})
        \cup (IF PendingDelete THEN {MapLen(m) - 1} ELSE {})

LenCall(p) ==
    /\ pc[p] = "idle"
    /\ ncalls < MaxCalls
    /\ ncalls' = ncalls + 1
    /\ pc' = [pc EXCEPT ![p] = "len"]
    /\ UNCHANGED <<m, lock, maxTTL, clock, nextTick, tickChan, spc, now,
                   todo, arg, ret>>
    /\ UNCHANGED histVars
    /\ UNCHANGED preVars

\* return len(m.m): no Lock
LenRead(p) ==
    /\ pc[p] = "len"
    /\ \E n \in LenOutcomes : ret' = [ret EXCEPT ![p] = n]
    /\ pc' = [pc EXCEPT ![p] = "len_done"]
    /\ UNCHANGED <<m, lock, maxTTL, clock, nextTick, tickChan, spc, now,
                   todo, arg>>
    /\ UNCHANGED histVars
    /\ UNCHANGED ncalls
    /\ UNCHANGED preVars

LenReturn(p) ==
    /\ pc[p] = "len_done"
    /\ pc' = [pc EXCEPT ![p] = "idle"]
    /\ ret' = [ret EXCEPT ![p] = 0]
    /\ UNCHANGED <<m, lock, maxTTL, clock, nextTick, tickChan, spc, now,
                   todo, arg>>
    /\ UNCHANGED histVars
    /\ UNCHANGED ncalls
    /\ UNCHANGED preVars

\* ---- the system ---------------------------------------------------------
Next ==
    \/ Advance
    \/ SweepRecv
    \/ SweepLock
    \/ \E k \in Keys : SweepStep(k)
    \/ SweepUnlock
    \/ \E p \in Procs, k \in Keys, v \in Values : PutLock(p, k, v)
    \/ \E p \in Procs : PutBody(p)
    \/ \E p \in Procs, k \in Keys : GetLock(p, k)
    \/ \E p \in Procs : GetBody(p)
    \/ \E p \in Procs : GetUnlock(p)
    \/ \E p \in Procs : LenCall(p)
    \/ \E p \in Procs : LenRead(p)
    \/ \E p \in Procs : LenReturn(p)

Spec == Init /\ [][Next]_vars

\* ---- positions used by the properties ------------------------------------

\* the goroutines inside a critical section of Put, Get or the sweep
InCS ==
    {p \in Procs : pc[p] \in {"put", "get", "get_done"}}
        \cup (IF spc = "scan" THEN {Sweeper} ELSE {})

\* the keys that have been put at least once
PutKeys == DOMAIN putTime

\* no TTL has elapsed since the latest Put of any key
NoTTLElapsed == \A k \in PutKeys : clock - putTime[k] <= maxTTL * Sub

\* the sweep pass has visited every entry and is about to unlock
PassOver == spc = "scan" /\ todo = {}

\* ---- C1 -----------------------------------------------------------------
\* C1: after Put(k, v1) then Put(k, v2) with no eviction of k in between,
\* Get(k) returns v2, the value of the latest Put.
C1_PutOverwrites ==
    \A p \in Procs :
        (pc[p] = "get_done" /\ nPuts[arg[p].k] = 2 /\ ~evicted[arg[p].k])
            => ret[p] = lastPut[arg[p].k]

\* ---- C2 -----------------------------------------------------------------
\* C2: a Get(k) that runs no later than one TTL after the latest Put(k, v)
\* returns v.
C2_GetReturnsPut ==
    \A p \in Procs :
        (/\ pc[p] = "get_done"
         /\ arg[p].k \in PutKeys
         /\ clock - putTime[arg[p].k] <= maxTTL * Sub)
            => ret[p] = lastPut[arg[p].k]

\* ---- C3 -----------------------------------------------------------------
\* C3 as stated: an entry whose idle time exceeded ttlSeconds when a sweep
\* tick fired is absent once that tick's sweep pass is over.
C3_IdleOverTTLRemoved ==
    PassOver =>
        \A k \in DOMAIN m : now - touchTime[k] <= maxTTL * Sub

\* C3 amended: an entry that had been idle for at least ttlSeconds + 1
\* seconds when a sweep tick fired is absent once that tick's pass is over.
C3_IdleOverTTLPlusOneRemoved ==
    PassOver =>
        \A k \in DOMAIN m : now - touchTime[k] < (maxTTL + 1) * Sub

C3_Witness ==
    /\ PassOver
    /\ maxTTL > 0
    /\ \E k \in Keys :
        /\ evicted[k]
        /\ k \notin DOMAIN m
        /\ now - touchTime[k] >= (maxTTL + 1) * Sub

\* ---- C4 -----------------------------------------------------------------
\* C4: sliding expiration: whenever an entry is removed, more than one TTL
\* has passed since it was last touched by Put or Get; an entry touched in
\* every TTL window is never removed.
C4_RemovedOnlyWhenIdle ==
    [][\A k \in Keys :
          (k \in DOMAIN m /\ k \notin DOMAIN m')
              => clock - touchTime[k] > maxTTL * Sub]_vars

\* a sweep pass has visited and kept an entry that it would have removed
\* had a Get not refreshed it, more than one TTL after its Put
C4_Witness ==
    \E k \in Keys :
        /\ spc = "scan"
        /\ maxTTL > 0
        /\ k \in DOMAIN m
        /\ k \notin todo
        /\ clock - putTime[k] > maxTTL * Sub
        /\ touchTime[k] > putTime[k]
        /\ Expired(now, Unix(putTime[k]), maxTTL)

\* ---- C5 -----------------------------------------------------------------
\* the scenario of C5: TTL = 1, the latest Put of "x" created the entry with
\* value 5, nothing has touched "x" since, and caller p runs the body of
\* Get("x") exactly two seconds after that Put
C5_GetAtTwo(p) ==
    /\ pc[p] = "get"
    /\ pc'[p] = "get_done"
    /\ arg[p].k = "x"
    /\ maxTTL = 1
    /\ lastPut["x"] = 5
    /\ nPuts["x"] = 1
    /\ touchTime["x"] = putTime["x"]
    /\ clock = putTime["x"] + 2 * Sub

\* the time of the latest tick of the sweeper's ticker (the construction
\* time when it has not fired yet)
LastTick == nextTick - Sub

\* the sweeper has received every tick sent so far and finished its pass
SweeperUpToDate == spc = "wait" /\ tickChan = NoTick

\* C5 as stated: in that scenario Get("x") returns 0 (even when the sweeper
\* has kept up with every tick).
C5_GetAtTwoReturnsZero ==
    [][\A p \in Procs :
          (C5_GetAtTwo(p) /\ SweeperUpToDate) => ret'[p] = 0]_vars

\* C5 amended: in that scenario Get("x") returns 0 or 5, and it returns 0
\* only if the latest sweep tick lies in a wall-clock second at least two
\* after the second of the Put.
C5_GetAtTwoZeroOnlyAfterLateTick ==
    [][\A p \in Procs :
          C5_GetAtTwo(p) =>
              /\ ret'[p] \in {0, 5}
              /\ ret'[p] = 0 => Unix(LastTick) - Unix(putTime["x"]) > 1]_vars

\* Get("x") ran two seconds after the Put and found the entry evicted
C5_Witness ==
    \E p \in Procs :
        /\ pc[p] = "get_done"
        /\ arg[p].k = "x"
        /\ ret[p] = 0
        /\ maxTTL = 1
        /\ lastPut["x"] = 5
        /\ nPuts["x"] = 1
        /\ evicted["x"]
        /\ touchTime["x"] = putTime["x"]
        /\ clock = putTime["x"] + 2 * Sub

\* ---- C6 -----------------------------------------------------------------
\* C6: Put, Get, Len and the sweep hold the mutex whenever they are at a
\* statement that reads or writes the map.
C6_AllAccessUnderLock ==
    /\ \A p \in Procs : pc[p] \in {"put", "get", "len"} => lock = p
    /\ spc = "scan" => lock = Sweeper

\* ---- C7 -----------------------------------------------------------------
\* C7: at most one of the Put callers, the Get callers and the sweeper is in
\* its critical section, and whoever is there holds the mutex.
C7_MutualExclusion ==
    /\ Cardinality(InCS) <= 1
    /\ \A q \in InCS : lock = q

\* a caller is in the critical section of Put while the sweeper, having
\* received a tick, waits for the mutex
C7_Witness ==
    \E p \in Procs : pc[p] = "put" /\ lock = p /\ spc = "lock"

\* ---- C8 -----------------------------------------------------------------
\* C8: Get(k) returns 0 for a key that was never put, or that was evicted
\* and not put again.
C8_AbsentKeyGetsZero ==
    \A p \in Procs :
        (/\ pc[p] = "get_done"
         /\ (arg[p].k \notin PutKeys \/ evicted[arg[p].k]))
            => ret[p] = 0

\* Get has run on a key that had been put and then evicted
C8_Witness ==
    \E p \in Procs :
        /\ pc[p] = "get_done"
        /\ evicted[arg[p].k]
        /\ lastPut[arg[p].k] # 0
        /\ ret[p] = 0

\* ---- C9 -----------------------------------------------------------------
\* C9: when every key put so far was put exactly once, all Puts have
\* returned and no TTL has elapsed, Len returns the number of keys put.
C9_LenCountsDistinctPuts ==
    [][\A p \in Procs :
          (/\ pc[p] = "len"
           /\ pc'[p] = "len_done"
           /\ \A q \in Procs : pc[q] # "put"
           /\ \A k \in Keys : nPuts[k] <= 1 /\ ~evicted[k]
           /\ NoTTLElapsed)
              => ret'[p] = Cardinality(PutKeys)]_vars

\* Len has returned 2 after two Puts on the two keys
C9_Witness ==
    \E p \in Procs :
        /\ pc[p] = "len_done"
        /\ ret[p] = 2
        /\ PutKeys = Keys
        /\ \A k \in Keys : nPuts[k] = 1 /\ ~evicted[k]
        /\ \A q \in Procs \ {p} : pc[q] = "idle"
        /\ NoTTLElapsed

\* ---- C10 ----------------------------------------------------------------
\* C10: when the callers have worked on pairwise disjoint keys, all calls
\* have returned and no TTL has elapsed, every key that was put is present
\* with the value of its latest Put.
C10_NoLostUpdate ==
    (/\ disjoint
     /\ \A p \in Procs : pc[p] = "idle"
     /\ NoTTLElapsed)
        => \A k \in PutKeys : k \in DOMAIN m /\ m[k].value = lastPut[k]

\* ---- steps named by the properties ---------------------------------------

\* the sweeper's range loop visits key k in this step
SweepVisits(k) == spc = "scan" /\ k \in todo /\ k \notin todo'

\* caller p runs the body of Get / of Put in this step
GetRuns(p) == pc[p] = "get" /\ pc'[p] = "get_done"
PutRuns(p) == pc[p] = "put" /\ pc'[p] = "idle"

\* every entry other than k's is the same before and after the step
OthersSame(k) ==
    \A j \in (DOMAIN m) \ {k} : j \in DOMAIN m' /\ m'[j] = m[j]

\* ---- C11 ----------------------------------------------------------------
\* C11: a sweep pass removes the entry it visits if and only if the whole
\* seconds of the tick's time minus lastAccess is strictly greater than
\* ttlSeconds; an entry it keeps (idle for ttlSeconds or less) is unchanged,
\* and so is every other entry.
C11_RemovedIffStrictlyOlder ==
    [][\A k \in Keys :
          SweepVisits(k) =>
              /\ k \notin DOMAIN m' <=> Unix(now) - m[k].lastAccess > maxTTL
              /\ k \in DOMAIN m' => m'[k] = m[k]
              /\ OthersSame(k)]_vars

\* a pass has visited and kept an entry idle for exactly ttlSeconds
C11_Witness ==
    \E k \in Keys :
        /\ spc = "scan"
        /\ maxTTL > 0
        /\ k \in DOMAIN m
        /\ k \notin todo
        /\ Unix(now) - m[k].lastAccess = maxTTL

\* ---- C12 ----------------------------------------------------------------
\* C12: when a sweep pass is about to release the lock, every entry still
\* in the map has lastAccess within ttlSeconds of the pass's now.
C12_PostSweepInvariant ==
    PassOver =>
        \A k \in DOMAIN m : Unix(now) - m[k].lastAccess <= maxTTL

\* a pass is over that removed one entry and kept another
C12_Witness ==
    /\ PassOver
    /\ \E k \in DOMAIN m, j \in Keys :
        /\ j \notin DOMAIN m
        /\ evicted[j]
        /\ Unix(now) - Unix(touchTime[j]) > maxTTL

\* ---- C13 ----------------------------------------------------------------
\* C13: Get(k) on a present key sets that entry's lastAccess to the current
\* time and changes nothing else: not its value, not the set of keys, not
\* any other entry.
C13_GetHitFrame ==
    [][\A p \in Procs :
          (GetRuns(p) /\ arg[p].k \in DOMAIN m) =>
              /\ DOMAIN m' = DOMAIN m
              /\ m'[arg[p].k].value = m[arg[p].k].value
              /\ m'[arg[p].k].lastAccess = Unix(clock)
              /\ OthersSame(arg[p].k)]_vars

\* Get has refreshed one of two entries; the other kept its older lastAccess
C13_Witness ==
    \E p \in Procs :
        /\ pc[p] = "get_done"
        /\ DOMAIN m = Keys
        /\ touchTime[arg[p].k] = clock
        /\ putTime[arg[p].k] < clock
        /\ m[arg[p].k].lastAccess = Unix(clock)
        /\ \E j \in Keys : m[j].lastAccess < Unix(clock)

\* ---- C14 ----------------------------------------------------------------
\* C14: a Put(k, v) on a key the sweeper has evicted creates an entry with
\* value v and lastAccess the time of that Put, and a Get(k) that follows
\* it returns v.
C14_FreshAfterEviction ==
    [][\A p \in Procs :
          /\ (PutRuns(p) /\ evicted[arg[p].k]) =>
                /\ arg[p].k \in DOMAIN m'
                /\ m'[arg[p].k] =
                      [value |-> arg[p].v, lastAccess |-> Unix(clock)]
          /\ (/\ GetRuns(p)
              /\ recreated[arg[p].k]
              /\ nPuts[arg[p].k] = 1
              /\ ~evicted[arg[p].k]) =>
                ret'[p] = lastPut[arg[p].k]]_vars

\* Get has returned 5, the value of the Put that re-created an evicted key
C14_Witness ==
    \E p \in Procs :
        /\ pc[p] = "get_done"
        /\ recreated[arg[p].k]
        /\ nPuts[arg[p].k] = 1
        /\ ~evicted[arg[p].k]
        /\ ret[p] = 5
        /\ lastPut[arg[p].k] = 5

\* ---- C15 ----------------------------------------------------------------
\* C15: Get(k) racing with a sweep pass for which k's entry is expired has
\* two outcomes.  When Get runs while the sweeper still waits for the lock,
\* it returns the stored value and refreshes lastAccess.  When the sweep
\* has removed the entry first, Get returns 0 and creates nothing.
C15_LastLockerWins ==
    [][\A p \in Procs :
          GetRuns(p) =>
              \/ /\ arg[p].k \in DOMAIN m
                 /\ ~evicted[arg[p].k]
                 /\ ret'[p] = m[arg[p].k].value
                 /\ arg[p].k \in DOMAIN m'
                 /\ m'[arg[p].k].lastAccess = Unix(clock)
              \/ /\ arg[p].k \notin DOMAIN m
                 /\ ret'[p] = 0
                 /\ arg[p].k \notin DOMAIN m']_vars

\* Get took the lock first: the sweeper waits with a tick for which the
\* entry was expired, and Get has returned the value and refreshed it
C15_Witness ==
    \E p \in Procs :
        /\ pc[p] = "get_done"
        /\ spc = "lock"
        /\ arg[p].k \in DOMAIN m
        /\ Expired(now, Unix(putTime[arg[p].k]), maxTTL)
        /\ putTime[arg[p].k] < touchTime[arg[p].k]
        /\ ~Expired(now, m[arg[p].k].lastAccess, maxTTL)
        /\ ret[p] = m[arg[p].k].value

\* ---- C17 ----------------------------------------------------------------
\* C17: a key leaves the map only in a step of the sweeper's loop, never in
\* a step of Put, Get or Len, and Put(k, v) leaves every entry other than
\* k's unchanged.
C17_OnlySweeperRemoves ==
    [][/\ \A k \in DOMAIN m : k \notin DOMAIN m' => SweepVisits(k)
       /\ \A p \in Procs : PutRuns(p) => OthersSame(arg[p].k)]_vars

\* a Put has returned while the other key's entry, put earlier, is as it was
C17_Witness ==
    \E k \in Keys, j \in Keys :
        /\ DOMAIN m = Keys
        /\ j # k
        /\ putTime[k] > putTime[j]
        /\ touchTime[j] = putTime[j]
        /\ m[j] = [value |-> lastPut[j], lastAccess |-> Unix(putTime[j])]
        /\ nPuts[j] = 1

\* ---- C18 ----------------------------------------------------------------
\* C18: Get(k) on an absent key leaves the map as it is (same keys, same
\* count), and a key becomes present only in the body of a Put on it.
C18_GetMissCreatesNothing ==
    [][/\ \A p \in Procs :
            (GetRuns(p) /\ arg[p].k \notin DOMAIN m) =>
                /\ DOMAIN m' = DOMAIN m
                /\ MapLen(m') = MapLen(m)
       /\ \A k \in Keys :
            (k \notin DOMAIN m /\ k \in DOMAIN m') =>
                \E p \in Procs : PutRuns(p) /\ arg[p].k = k]_vars

\* Get has run on a key that was never put, beside another key's entry
C18_Witness ==
    \E p \in Procs :
        /\ pc[p] = "get_done"
        /\ arg[p].k \notin PutKeys
        /\ arg[p].k \notin DOMAIN m
        /\ m # <<>>
        /\ ret[p] = 0

\* ---- C16 ----------------------------------------------------------------
\* The runs checked for progress: the steps of the sweeper, Put and Get,
\* with at most LiveCalls calls.
LivePut(p, k, v) == ncalls < LiveCalls /\ PutLock(p, k, v)

LiveGet(p, k) == ncalls < LiveCalls /\ GetLock(p, k)

LiveNext ==
    \/ Advance
    \/ SweepRecv
    \/ SweepLock
    \/ \E k \in Keys : SweepStep(k)
    \/ SweepUnlock
    \/ \E p \in Procs, k \in Keys, v \in Values : LivePut(p, k, v)
    \/ \E p \in Procs : PutBody(p)
    \/ \E p \in Procs, k \in Keys : LiveGet(p, k)
    \/ \E p \in Procs : GetBody(p)
    \/ \E p \in Procs : GetUnlock(p)

\* The scheduler lets every goroutine that can take a step take one, and
\* a goroutine waiting for a mutex that stays free takes it.
Fairness ==
    /\ \A p \in Procs : WF_vars(PutBody(p))
    /\ \A p \in Procs : WF_vars(GetBody(p))
    /\ \A p \in Procs : WF_vars(GetUnlock(p))
    /\ \A k \in Keys : WF_vars(SweepStep(k))
    /\ WF_vars(SweepUnlock)
    /\ WF_vars(SweepLock)

FairSpec == Init /\ [][LiveNext]_vars /\ Fairness

\* C16: every call of Put or Get that has taken the lock returns, every
\* sweep pass finishes, each leaving the lock free, and the sweeper waiting
\* for the lock gets it: nobody waits for the lock forever.
C16_EveryoneReleases ==
    /\ \A p \in Procs : (pc[p] \in {"put", "get", "get_done"}) ~> (pc[p] = "idle")
    /\ (spc = "scan") ~> (spc = "wait")
    /\ (spc = "lock") ~> (spc = "scan")
    /\ (lock # NoOne) ~> (lock = NoOne)

\* the sweeper, with a tick in hand, waits for the lock held by a Get that
\* has computed its result
C16_Witness ==
    \E p \in Procs :
        /\ spc = "lock"
        /\ lock = p
        /\ pc[p] = "get_done"

TypeOK ==
    /\ DOMAIN m \subseteq Keys
    /\ lock \in Procs \cup {Sweeper, NoOne}
    /\ clock \in 0..MaxTime
    /\ spc \in {"wait", "lock", "scan"}
    /\ todo \subseteq DOMAIN m

----------------------------------------------------------------------------
\* AlertMethod.preprocess (package slack).  A string is the sequence of its
\* bytes; the pieces fmt.Sprintf adds around a slice are kept as tokens, so
\* that a formatted part is a different string from the slice it carries.

Alphabet == {"a", "b"}

Texts == UNION {[1..l -> Alphabet] : l \in 0..MaxText}

\* config.TextLimit is not validated: 0 becomes defaultTextLimit, any other
\* integer is used as it is.
TextLimits == {-1} \cup (1..MaxLimit)

RawFilter == <<"f">>

RawFields == <<"k">>

RawRecords ==
    {[Filter |-> RawFilter, Text |-> t, BodyField |-> b, Fields |-> RawFields] :
        t \in Texts, b \in BOOLEAN}

RecordLists == UNION {[1..l -> RawRecords] : l \in 0..MaxRecords}

\* Go's integer division truncates toward zero; a is a length, b is not 0.
GoDiv(a, b) == IF b > 0 THEN a \div b ELSE 0 - (a \div (0 - b))

\* %d of a small positive integer.
Dec(i) == <<"1", "2", "3", "4", "5", "6", "7", "8", "9">>[i]

SliceShort(text, lo, hi) == SubSeq(text, lo + 1, hi - 1)

\* text[lo:hi]
Slice(text, lo, hi) == SubSeq(text, lo + 1, hi)

PartHeader(i, n) == <<"(part ", Dec(i + 1), " of ", Dec(n + 1), ")\n\n">>

Continued == <<"\n\n(continued)">>

FilterOf(raw, i, n) == raw.Filter \o <<" (", Dec(i + 1), " of ", Dec(n + 1), ")">>

\* A record built by preprocess sets Filter, Text and BodyField only.
ChoppedRecord(raw, i, n, chopped) ==
    [Filter |-> FilterOf(raw, i, n), Text |-> chopped,
     BodyField |-> raw.BodyField, Fields |-> <<>>]

MiddlePart(raw, i, n) ==
    ChoppedRecord(raw, i, n,
        PartHeader(i, n) \o Slice(raw.Text, textLimit * i, textLimit * (i + 1))
                         \o Continued)

LastPart(raw, i, n) ==
    ChoppedRecord(raw, i, n,
        PartHeader(i, n) \o Slice(raw.Text, textLimit * i, Len(raw.Text)))

PartCount(raw) == GoDiv(Len(raw.Text), textLimit)

PreInit ==
    /\ m = <<>>
    /\ lock = NoOne
    /\ maxTTL = 0
    /\ clock = 0
    /\ nextTick = Sub
    /\ tickChan = NoTick
    /\ spc = "wait"
    /\ now = 0
    /\ todo = {}
    /\ pc = [p \in Procs |-> "idle"]
    /\ arg = [p \in Procs |-> NoArg]
    /\ ret = [p \in Procs |-> 0]
    /\ ncalls = 0
    /\ lastPut = <<>>
    /\ nPuts = [k \in Keys |-> 0]
    /\ evicted = {}
    /\ recreated = FALSE
    /\ putTime = <<>>
    /\ touchTime = <<>>
    /\ disjoint = TRUE
    /\ textLimit \in TextLimits
    /\ records \in RecordLists
    /\ output = <<>>
    /\ pidx = 0

mapVars == <<m, lock, maxTTL, clock, nextTick, tickChan, spc, now, todo, pc,
             arg, ret, ncalls, lastPut, nPuts, evicted, recreated, putTime,
             touchTime, disjoint>>

\* One round of the loop over records, for a record that is passed through.
PrePass ==
    /\ pidx < Len(records)
    /\ PartCount(records[pidx + 1]) < 1
    /\ output' = Append(output, records[pidx + 1])
    /\ pidx' = pidx + 1
    /\ UNCHANGED <<textLimit, records>>
    /\ UNCHANGED mapVars

\* One round of the loop over records, for a record that is split.
PreSplit ==
    /\ pidx < Len(records)
    /\ PartCount(records[pidx + 1]) >= 1
    /\ LET raw == records[pidx + 1]
           n == PartCount(raw)
       IN  output' = output \o [j \in 1..n |-> MiddlePart(raw, j - 1, n)]
                            \o <<LastPart(raw, n, n)>>
    /\ pidx' = pidx + 1
    /\ UNCHANGED <<textLimit, records>>
    /\ UNCHANGED mapVars

PreNext == PrePass \/ PreSplit

PreSpec == PreInit /\ [][PreNext]_vars

\* What one round of the loop appended.
Added == SubSeq(output', Len(output) + 1, Len(output'))

\* The input record the round handled.
Handled == records[pidx + 1]

\* The piece of the original text a part carries: what follows the five
\* tokens of the header, without the trailer of a part that is not the last.
Carried(part, last) ==
    SubSeq(part.Text, 6, Len(part.Text) - (IF last THEN 0 ELSE 1))

RECURSIVE Concat(_, _)
Concat(parts, j) ==
    IF j > Len(parts) THEN <<>>
    ELSE Carried(parts[j], j = Len(parts)) \o Concat(parts, j + 1)

\* C19: preprocess breaks into multiple records only the records whose text
\* is greater than textLimit: a record with len(Text) <= textLimit is passed
\* through as the same single record, and a record with len(Text) > textLimit
\* is replaced by two or more records.
C19_SplitsOnlyLongerThanLimit ==
    [][pidx' = pidx + 1 =>
        /\ SubSeq(output', 1, Len(output)) = output
        /\ (Len(Handled.Text) <= textLimit => Added = <<Handled>>)
        /\ (Len(Handled.Text) > textLimit => Len(Added) >= 2)]_vars

\* C20: preprocess loses and reorders no text: a record it splits becomes
\* parts numbered 1..n+1 in order, n = len(Text) / textLimit, each carrying at
\* most textLimit bytes of the original text, the pieces carried, put
\* together in order, are exactly the original Text, and what a round appends
\* comes after everything appended for the records before it.
C20_NoTextLostOrReordered ==
    [][pidx' = pidx + 1 =>
        /\ SubSeq(output', 1, Len(output)) = output
        /\ Len(Added) >= 1
        /\ (Len(Added) = 1 => Added = <<Handled>>)
        /\ (Len(Added) > 1 =>
              LET n == Len(Handled.Text) \div textLimit
              IN  /\ textLimit > 0
                  /\ Len(Added) = n + 1
                  /\ \A j \in 1..(n + 1) :
                        /\ SubSeq(Added[j].Text, 1, 5) =
                              <<"(part ", Dec(j), " of ", Dec(n + 1), ")\n\n">>
                        /\ Len(Carried(Added[j], j = n + 1)) <= textLimit
                        /\ j <= n => Added[j].Text[Len(Added[j].Text)] = Continued[1]
                  /\ Concat(Added, 1) = Handled.Text)]_vars

\* Two records were handled, the first split into three or more parts and
\* the second passed through behind them.
C20_Witness ==
    /\ pidx = 2
    /\ textLimit > 0
    /\ Len(records[1].Text) >= 2 * textLimit
    /\ Len(records[2].Text) < textLimit
    /\ Len(output) >= 4
    /\ output[Len(output)] = records[2]

====
